---- MODULE Spec2Model ----
(***************************************************************************)
(* Device registry, pin pool, device state machines and the shared         *)
(* periodic timer of Pico-Train-Switching.                                 *)
(*                                                                         *)
(* The registry operations are those of server_methods.py, the device      *)
(* classes those of train_switch.py, the timer that of timer.py.  Device   *)
(* objects live in a heap (objs) indexed by object identity, because the   *)
(* timer module and the one-shot safety timers keep references to objects  *)
(* that the registry no longer holds.  Hardware lines live in gpio, per    *)
(* pin, because DigitalOutputDevice.value reads the pin itself.            *)
(*                                                                         *)
(* LightBeam._action passes callback_time to enqueue_to_timer; the         *)
(* enqueue_to_timer of timer.py takes (id, callback) only, so the measured *)
(* duration is dropped by the callee and the call is modelled as           *)
(* enqueue_to_timer(id, callback).                                         *)
(***************************************************************************)
EXTENDS Integers, Sequences, FiniteSets, TLC

VARIABLES
    objs,           \* heap of device objects, by object identity
    gpio,           \* logical level written to each pin (1 = on())
    devices,        \* ServerMethods.devices: ordered registry, as object ids
    pin_pool,       \* ServerMethods.pin_pool
    timer_armed,    \* _TIMER is initialised in periodic mode
    timer_period,   \* the period _TIMER was initialised with (0 when disarmed)
    timer_actions,  \* keys of _timer_actions
    last,           \* the last completed operation and its outcome
    profile,        \* the profile document on flash
    load_mid,       \* during the last load_json: the outcome of its
                    \* close_devices call, when construct_from_cfg began
    pixels_call,    \* a call of LightBeam.pixels_cycle: its arguments and,
                    \* once it has run, what it did and returned
    timer_call,     \* a call of enqueue_to_timer or dequeue_from_timer that
                    \* the main context has begun: the statement it is at
    favorite_file   \* the content of the file at _FAVORITE_PATH, NoFavorite
                    \* when there is no such file

vars == <<objs, gpio, devices, pin_pool, timer_armed, timer_period,
          timer_actions, last, profile, load_mid, pixels_call, timer_call,
          favorite_file>>

----------------------------------------------------------------------------
(* Bounds *)

NumPins == 5
MaxObjects == 2
MaxOrphans == 1
MaxPixels == 3
MaxDelay == 2

(* Program constants *)

SECONDS_PER_ACTION == 2
SECONDS_TO_MILLISECONDS == 1000

GPIO_PINS == 0 .. (NumPins - 1)
\* Identities of device objects.  Requests build at most MaxObjects live
\* objects; a load holds the old registry and the new one at once.
ObjIds == 1 .. (2 * MaxObjects)

None == "None"

----------------------------------------------------------------------------
(* Device classes *)

\* CLS_MAP: the classes of train_switch.py whose required_pins is 2.
CLS_MAP ==
    {"EmptySwitch", "RelayTrainSwitch", "SpurTrainSwitch", "DoubleOnOff",
     "DoubleDisconnect", "StepperMotor", "DoubleLightBeam"}

\* Device type names a request can carry: those of CLS_MAP and one that is a
\* class of train_switch.py but no key of CLS_MAP (required_pins = 1).
DeviceTypes == CLS_MAP \cup {"Disconnect"}

required_pins(kind) == IF kind = "Disconnect" THEN 1 ELSE 2

on_state(kind) ==
    CASE kind \in {"RelayTrainSwitch", "SpurTrainSwitch"} -> "straight"
      [] kind \in {"DoubleOnOff", "DoubleDisconnect", "Disconnect",
                   "DoubleLightBeam"} -> "on"
      [] kind = "StepperMotor" -> "next"
      [] OTHER -> None

off_state(kind) ==
    CASE kind \in {"RelayTrainSwitch", "SpurTrainSwitch"} -> "turn"
      [] kind \in {"DoubleOnOff", "DoubleDisconnect", "Disconnect",
                   "DoubleLightBeam"} -> "off"
      [] kind = "StepperMotor" -> "last"
      [] OTHER -> None

\* StatefulBinaryDevice subclasses; StepperMotor is a StatelessBinaryDevice.
Stateful(kind) == kind # "StepperMotor"

RelayKinds == {"RelayTrainSwitch", "SpurTrainSwitch"}
OnOffKinds == {"DoubleOnOff", "DoubleDisconnect"}

\* LightBeam parameters of a device that is no LightBeam.
NoLB == [n |-> 0, delay |-> 0, beam_length |-> 0, reverse_at_end |-> FALSE]

\* The LightBeam parameter sets a light-beam device type can name.
LightBeamParams ==
    {[n |-> 3, delay |-> 2, beam_length |-> 2, reverse_at_end |-> TRUE]}

FreeObj ==
    [kind |-> "Free", pin |-> <<>>, state |-> None, closed |-> FALSE,
     safe_stop |-> "None", orphans |-> 0, lb |-> NoLB]

\* BinaryDevice.__init__ and the subclass constructors: the object as built.
NewObj(kind, pin, lb) ==
    [kind |-> kind, pin |-> pin, state |-> None, closed |-> FALSE,
     safe_stop |-> "None", orphans |-> 0, lb |-> lb]

----------------------------------------------------------------------------
(* Results of a call: the machine state it leaves and the exception raised *)

Ok(s) == [s |-> s, err |-> "none"]
Raise(s, e) == [s |-> s, err |-> e]
Bind(r, F(_)) == IF r.err = "none" THEN F(r.s) ELSE r

\* The part of the state that device code reads and writes; wrote records
\* that the call drove an output line, hot_init that _TIMER.init ran on a
\* timer that was armed, hot_write that _timer_actions was written while the
\* timer was armed, both the classes of the relay switches that had their two
\* outputs on at the same moment.
Machine ==
    [objs |-> objs, gpio |-> gpio, armed |-> timer_armed,
     period |-> timer_period, actions |-> timer_actions, wrote |-> FALSE,
     hot_init |-> FALSE, hot_write |-> FALSE, both |-> {}]

----------------------------------------------------------------------------
(* timer.py *)

stop_timer(s) == [s EXCEPT !.armed = FALSE, !.period = 0]

start_timer(s) ==
    IF Cardinality(s.actions) > 0
    THEN [s EXCEPT !.armed = TRUE,
                   !.period = SECONDS_PER_ACTION * SECONDS_TO_MILLISECONDS
                              * Cardinality(s.actions),
                   !.hot_init = @ \/ s.armed]
    ELSE stop_timer(s)

enqueue_to_timer(s, id) ==
    LET s1 == stop_timer(s)
        s2 == [s1 EXCEPT !.actions = @ \cup {id},
                         !.hot_write = @ \/ s1.armed]
    IN  Ok(start_timer(s2))

dequeue_from_timer(s, id) ==
    LET s1 == stop_timer(s)
    IN  IF id \notin s1.actions
        THEN Raise(s1, "KeyError")
        ELSE Ok(start_timer([s1 EXCEPT !.actions = @ \ {id},
                                       !.hot_write = @ \/ s1.armed]))

\* The second statement of enqueue_to_timer (fn = "enqueue") and of
\* dequeue_from_timer (fn = "dequeue"): the write to _timer_actions.
timer_write(s, fn, id) ==
    IF fn = "enqueue"
    THEN Ok([s EXCEPT !.actions = @ \cup {id}, !.hot_write = @ \/ s.armed])
    ELSE IF id \notin s.actions
    THEN Raise(s, "KeyError")
    ELSE Ok([s EXCEPT !.actions = @ \ {id}, !.hot_write = @ \/ s.armed])

\* The loop of _timer_callback over _timer_actions.items(): each callback v
\* is called as it is reached; ran lists the keys whose callback was called.
\* A LightBeam's on_action runs one chase on its NeoPixel object, which ends
\* with the strip dark and touches nothing else.
RECURSIVE run_callbacks(_, _)
run_callbacks(keys, ran) ==
    IF keys = {}
    THEN ran
    ELSE LET k == CHOOSE x \in keys : \A y \in keys : x <= y
         IN  run_callbacks(keys \ {k}, Append(ran, k))

\* Variant of _timer_callback that returns after the first callback; C22 must
\* tell it from the code.
_timer_callback_returns_early(s) ==
    IF s.actions = {} THEN <<>> ELSE <<CHOOSE x \in s.actions : TRUE>>

\* _timer_callback(timer): the keys whose callbacks one tick calls.
_timer_callback(s) == run_callbacks(s.actions, <<>>)

----------------------------------------------------------------------------
(* picozero DigitalOutputDevice *)

\* The classes of the open relay switches (yg_relay, br_relay) whose two
\* outputs both have value 1 on the lines g.
BothOn(o, g) ==
    {o[j].kind : j \in {k \in ObjIds : /\ o[k].kind \in RelayKinds
                                       /\ ~o[k].closed
                                       /\ g[o[k].pin[1]] = 1
                                       /\ g[o[k].pin[2]] = 1}}

\* OutputDevice.value setter on output i of the device: _write on its pin;
\* a closed device has _pin = None and the write raises.
DigitalWrite(s, id, i, v) ==
    IF s.objs[id].closed
    THEN Raise(s, "AttributeError")
    ELSE Ok([s EXCEPT !.gpio[s.objs[id].pin[i]] = v, !.wrote = TRUE,
                      !.both = @ \cup BothOn(s.objs,
                                   [s.gpio EXCEPT ![s.objs[id].pin[i]] = v])])

\* DigitalOutputDevice.close: value = 0, then _pin = None.
DigitalClose(s, id, i) == DigitalWrite(s, id, i, 0)

----------------------------------------------------------------------------
(* train_switch.py: the state setter and the effectors *)

custom_state_setter(s, id, c) ==
    LET kind == s.objs[id].kind IN
    CASE kind \in RelayKinds ->
            IF c = None
            THEN Bind(DigitalWrite(s, id, 2, 0),
                      LAMBDA t: DigitalWrite(t, id, 1, 0))
            ELSE Ok(s)
      [] kind \in OnOffKinds ->
            IF c = None THEN DigitalWrite(s, id, 1, 0) ELSE Ok(s)
      [] OTHER -> Ok(s)

state_setter(s, id, c) ==
    Bind(custom_state_setter(s, id, c),
         LAMBDA t: Ok([t EXCEPT !.objs[id].state = c]))

\* Variant of RelayTrainSwitch._action that ends the blink with the relay
\* still on; C37 must tell it from the code.
RelayTrainSwitch_action_stays_on(s, id, c) ==
    CASE c = "turn" ->
            Bind(DigitalWrite(s, id, 2, 0), LAMBDA t1:
                 DigitalWrite(t1, id, 2, 1))
      [] c = "straight" ->
            Bind(DigitalWrite(s, id, 1, 0), LAMBDA t1:
                 DigitalWrite(t1, id, 1, 1))
      [] c = None -> Ok(s)
      [] OTHER -> Raise(s, "ValueError")

RelayTrainSwitch_action(s, id, c) ==
    CASE c = "turn" ->
            Bind(DigitalWrite(s, id, 2, 0), LAMBDA t1:
            Bind(DigitalWrite(t1, id, 2, 1), LAMBDA t2:
                 DigitalWrite(t2, id, 2, 0)))
      [] c = "straight" ->
            Bind(DigitalWrite(s, id, 1, 0), LAMBDA t1:
            Bind(DigitalWrite(t1, id, 1, 1), LAMBDA t2:
                 DigitalWrite(t2, id, 1, 0)))
      [] c = None -> Ok(s)
      [] OTHER -> Raise(s, "ValueError")

\* Variant of SpurTrainSwitch._action that switches the selected relay on
\* before it switches the other off; C38 must tell it from the code.
SpurTrainSwitch_action_on_first(s, id, c) ==
    CASE c = "turn" ->
            Bind(DigitalWrite(s, id, 2, 1), LAMBDA t: DigitalWrite(t, id, 1, 0))
      [] c = "straight" ->
            Bind(DigitalWrite(s, id, 1, 1), LAMBDA t: DigitalWrite(t, id, 2, 0))
      [] c = None -> Ok(s)
      [] OTHER -> Raise(s, "ValueError")

SpurTrainSwitch_action(s, id, c) ==
    CASE c = "turn" ->
            Bind(DigitalWrite(s, id, 1, 0), LAMBDA t: DigitalWrite(t, id, 2, 1))
      [] c = "straight" ->
            Bind(DigitalWrite(s, id, 2, 0), LAMBDA t: DigitalWrite(t, id, 1, 1))
      [] c = None -> Ok(s)
      [] OTHER -> Raise(s, "ValueError")

OnOff_action(s, id, c) ==
    CASE c = "off" -> DigitalWrite(s, id, 1, 0)
      [] c = "on" -> DigitalWrite(s, id, 1, 1)
      [] c = None -> Ok(s)
      [] OTHER -> Raise(s, "ValueError")

\* safe_stop.deinit(): the referenced one-shot no longer fires.
SafeStopDeinit(s, id) ==
    IF s.objs[id].safe_stop = "armed"
    THEN [s EXCEPT !.objs[id].safe_stop = "dead"]
    ELSE s

\* safe_stop = Timer(mode=ONE_SHOT, ...): a new pending one-shot; the timer
\* safe_stop referred to before keeps running if it was still pending.
SafeStopArm(s, id) ==
    [s EXCEPT !.objs[id].orphans =
                  IF s.objs[id].safe_stop = "armed" THEN @ + 1 ELSE @,
              !.objs[id].safe_stop = "armed"]

\* Variant of Disconnect._action that energizes the relay without creating
\* the one-shot; C2 must tell it from the code.
Disconnect_action_no_timer(s, id, c) ==
    CASE c = None \/ c = "off" ->
            Bind(DigitalWrite(s, id, 1, 0), LAMBDA t:
                 Ok(IF t.objs[id].safe_stop # "None"
                    THEN [SafeStopDeinit(t, id) EXCEPT
                              !.objs[id].safe_stop = "None"]
                    ELSE t))
      [] c = "on" -> DigitalWrite(stop_timer(s), id, 1, 1)
      [] OTHER -> Raise(s, "ValueError")

\* Variant of Disconnect._action that turns the relay off but leaves a
\* pending one-shot running; C4 must tell it from the code.
Disconnect_action_no_cancel(s, id, c) ==
    CASE c = None \/ c = "off" -> DigitalWrite(s, id, 1, 0)
      [] c = "on" ->
            Bind(DigitalWrite(stop_timer(s), id, 1, 1), LAMBDA t:
                 Ok(SafeStopArm(t, id)))
      [] OTHER -> Raise(s, "ValueError")

Disconnect_action(s, id, c) ==
    CASE c = None \/ c = "off" ->
            Bind(DigitalWrite(s, id, 1, 0), LAMBDA t:
                 Ok(IF t.objs[id].safe_stop # "None"
                    THEN [SafeStopDeinit(t, id) EXCEPT
                              !.objs[id].safe_stop = "None"]
                    ELSE t))
      [] c = "on" ->
            Bind(DigitalWrite(stop_timer(s), id, 1, 1), LAMBDA t:
                 Ok(SafeStopArm(t, id)))
      [] OTHER -> Raise(s, "ValueError")

StepperMotor_action(s, id, c) ==
    CASE c = "next" ->
            Bind(DigitalWrite(s, id, 1, 1), LAMBDA t1:
            Bind(DigitalWrite(t1, id, 2, 1), LAMBDA t2:
                 DigitalWrite(t2, id, 2, 0)))
      [] c = "last" ->
            Bind(DigitalWrite(s, id, 1, 0), LAMBDA t1:
            Bind(DigitalWrite(t1, id, 2, 1), LAMBDA t2:
                 DigitalWrite(t2, id, 2, 0)))
      [] c = None -> Ok(s)
      [] OTHER -> Raise(s, "ValueError")

\* Variant of LightBeam._action that blanks the strip on None but leaves the
\* registration; C23 must tell it from the code.
LightBeam_action_reset_keeps(s, id, c) ==
    CASE c = "on" -> enqueue_to_timer(s, id)
      [] c = "off" -> dequeue_from_timer(s, id)
      [] c = None -> Ok(s)
      [] OTHER -> Raise(s, "ValueError")

\* pixels_reset writes through the NeoPixel object, which close() leaves alone.
LightBeam_action(s, id, c) ==
    CASE c = "on" -> enqueue_to_timer(s, id)
      [] c = "off" -> dequeue_from_timer(s, id)
      [] c = None -> dequeue_from_timer(s, id)
      [] OTHER -> Raise(s, "ValueError")

_action(s, id, c) ==
    LET kind == s.objs[id].kind IN
    CASE kind = "EmptySwitch" -> Ok(s)
      [] kind = "RelayTrainSwitch" -> RelayTrainSwitch_action(s, id, c)
      [] kind = "SpurTrainSwitch" -> SpurTrainSwitch_action(s, id, c)
      [] kind = "DoubleOnOff" -> OnOff_action(s, id, c)
      [] kind = "DoubleDisconnect" -> Disconnect_action(s, id, c)
      [] kind = "StepperMotor" -> StepperMotor_action(s, id, c)
      [] kind = "DoubleLightBeam" -> LightBeam_action(s, id, c)

\* Variant of StatefulBinaryDevice.action without the comparison of the
\* command with the latched state; C9 must tell it from the code.
StatefulBinaryDevice_action_no_skip(s, id, c) ==
    Bind(state_setter(s, id, c), LAMBDA t: _action(t, id, c))

StatefulBinaryDevice_action(s, id, c) ==
    IF s.objs[id].state = c
    THEN Ok(s)
    ELSE Bind(state_setter(s, id, c), LAMBDA t: _action(t, id, c))

\* Variant of StatelessBinaryDevice.action that latches and compares the
\* command as the stateful base class does; C13 must tell it from the code.
StatelessBinaryDevice_action_latches(s, id, c) ==
    StatefulBinaryDevice_action(s, id, c)

\* StatelessBinaryDevice.action: the effector runs, the state is not written.
StatelessBinaryDevice_action(s, id, c) == _action(s, id, c)

action(s, id, c) ==
    IF Stateful(s.objs[id].kind)
    THEN StatefulBinaryDevice_action(s, id, c)
    ELSE StatelessBinaryDevice_action(s, id, c)

\* Variant of safe_close_relay that de-energizes the relay but does not
\* latch off_state; C3 must tell it from the code.
safe_close_relay_keeps_state(s, id) ==
    IF s.objs[id].closed
    THEN Raise(s, "AttributeError")
    ELSE LET s1 == IF s.gpio[s.objs[id].pin[1]] = 1
                   THEN DigitalWrite(s, id, 1, 0).s
                   ELSE s
         IN  Ok(start_timer(s1))

\* Variant of safe_close_relay that latches off_state on every Disconnect
\* when it de-energizes its own relay; C24 must tell it from the code.
safe_close_relay_resets_all(s, id) ==
    IF s.objs[id].closed
    THEN Raise(s, "AttributeError")
    ELSE LET s1 == IF s.gpio[s.objs[id].pin[1]] = 1
                   THEN [s EXCEPT
                            !.gpio[s.objs[id].pin[1]] = 0,
                            !.wrote = TRUE,
                            !.objs = [j \in ObjIds |->
                                IF s.objs[j].kind = "DoubleDisconnect"
                                THEN [s.objs[j] EXCEPT !.state = "off"]
                                ELSE s.objs[j]]]
                   ELSE s
         IN  Ok(start_timer(s1))

\* Variant of safe_close_relay that restarts the timer only when it found
\* the relay energized; C28 must tell it from the code.
safe_close_relay_restarts_if_on(s, id) ==
    IF s.objs[id].closed
    THEN Raise(s, "AttributeError")
    ELSE IF s.gpio[s.objs[id].pin[1]] = 1
    THEN Ok(start_timer(
             Bind(DigitalWrite(s, id, 1, 0), LAMBDA t:
                  state_setter(t, id, off_state(t.objs[id].kind))).s))
    ELSE Ok(s)

\* Disconnect.safe_close_relay, the one-shot's callback.  relay.value reads
\* the pin; on a closed device the read raises inside the callback.
safe_close_relay(s, id) ==
    IF s.objs[id].closed
    THEN Raise(s, "AttributeError")
    ELSE LET s1 == IF s.gpio[s.objs[id].pin[1]] = 1
                   THEN Bind(DigitalWrite(s, id, 1, 0), LAMBDA t:
                             state_setter(t, id, off_state(t.objs[id].kind))).s
                   ELSE s
         IN  Ok(start_timer(s1))

\* BinaryDevice.close -> __del__ of the class.
close(s, id) ==
    LET kind == s.objs[id].kind
        Closed(t) == Ok([t EXCEPT !.objs[id].closed = TRUE])
    IN
    CASE kind = "EmptySwitch" -> Ok(s)
      [] kind \in RelayKinds ->
            Bind(DigitalClose(s, id, 1), LAMBDA t1:
            Bind(DigitalClose(t1, id, 2), Closed))
      [] kind = "DoubleOnOff" -> Bind(DigitalClose(s, id, 1), Closed)
      [] kind = "DoubleDisconnect" ->
            Bind(DigitalWrite(s, id, 1, 0), LAMBDA t1:
            Bind(DigitalClose(SafeStopDeinit(t1, id), id, 1), Closed))
      [] kind = "StepperMotor" ->
            Bind(DigitalClose(s, id, 1), LAMBDA t1:
            Bind(DigitalClose(t1, id, 2), Closed))
      [] kind = "DoubleLightBeam" -> Closed(s)

----------------------------------------------------------------------------
(* LightBeam.pixels_cycle in measurement mode *)

\* The loop over the pixels: q is len(queue), total the time so far.
RECURSIVE pixels_loop(_, _, _, _, _)
pixels_loop(left, q, total, beam_length, delay) ==
    IF left = 0
    THEN total + q * delay
    ELSE LET q1 == q + 1
             q2 == IF beam_length <= q1 THEN q1 - 1 ELSE q1
         IN  pixels_loop(left - 1, q2, total + delay + delay, beam_length, delay)

pixels_cycle_time(lb) == pixels_loop(lb.n, 0, 0, lb.beam_length, lb.delay)

\* LightBeam._on_action(measure_time=True)
on_action_time(lb) ==
    pixels_cycle_time(lb)
    + (IF lb.reverse_at_end THEN pixels_cycle_time(lb) ELSE 0)

----------------------------------------------------------------------------
(* LightBeam.pixels_cycle in both modes *)

\* The strip of n dark pixels, an empty queue, and nothing slept or written;
\* max_lit and max_queue are the most pixels lit and the longest queue so
\* far, gaps whether the lit pixels were ever not one run of neighbours.
PixelsStart(n) ==
    [queue |-> <<>>, total_time |-> 0, slept |-> 0, writes |-> 0,
     lit |-> [i \in 0 .. (n - 1) |-> FALSE],
     max_lit |-> 0, max_queue |-> 0, gaps |-> FALSE]

\* The strip and the queue as they are after a statement of pixels_cycle.
Observe(st) ==
    LET on == {i \in DOMAIN st.lit : st.lit[i]}
    IN  [st EXCEPT
            !.max_lit = IF Cardinality(on) > @ THEN Cardinality(on) ELSE @,
            !.max_queue = IF Len(st.queue) > @ THEN Len(st.queue) ELSE @,
            !.gaps = @ \/ \E i, j \in on :
                              \E k \in DOMAIN st.lit :
                                  i < k /\ k < j /\ ~st.lit[k]]

\* queue.append(i) on deque([], maxlen): a full deque drops its oldest item.
deque_append(queue, i, maxlen) ==
    IF Len(queue) < maxlen
    THEN Append(queue, i)
    ELSE Append(Tail(queue), i)

\* _pixel_set(i, color) and _pixel_write(), then one sleep, in real mode; the
\* sleep's duration added to total_time in measurement mode.
pixel_step(st, i, on, lb, measure_time) ==
    IF measure_time
    THEN [st EXCEPT !.total_time = @ + lb.delay]
    ELSE Observe([st EXCEPT !.lit[i] = on, !.writes = @ + 1,
                            !.slept = @ + lb.delay])

\* Variant of the body of the loop that never takes the trailing pixel off
\* the queue; C40 must tell it from the code.
pixels_body_no_trim(st, i, lb, measure_time) ==
    pixel_step(pixel_step(Observe([st EXCEPT !.queue =
                              deque_append(@, i, lb.beam_length + 1)]),
                          i, TRUE, lb, measure_time),
               i, TRUE, lb, measure_time)

\* One pass of the loop over the pixels.
pixels_body(st, i, lb, measure_time) ==
    LET s1 == pixel_step(Observe([st EXCEPT !.queue =
                              deque_append(@, i, lb.beam_length + 1)]),
                         i, TRUE, lb, measure_time)
        s2 == IF lb.beam_length <= Len(s1.queue)
              THEN IF measure_time
                   THEN Observe([s1 EXCEPT !.queue = Tail(@)])
                   ELSE Observe([s1 EXCEPT !.queue = Tail(@),
                                           !.lit[Head(s1.queue)] = FALSE,
                                           !.writes = @ + 1])
              ELSE s1
    IN  IF measure_time
        THEN [s2 EXCEPT !.total_time = @ + lb.delay]
        ELSE [s2 EXCEPT !.slept = @ + lb.delay]

RECURSIVE pixels_for(_, _, _, _)
pixels_for(loop, st, lb, measure_time) ==
    IF loop = <<>>
    THEN st
    ELSE pixels_for(Tail(loop), pixels_body(st, Head(loop), lb, measure_time),
                    lb, measure_time)

\* Variant of the loop over the remaining pixels that adds nothing to
\* total_time in measurement mode; C25 must tell it from the code.
pixels_rest_unmeasured(rest, st, lb, measure_time) ==
    IF measure_time
    THEN st
    ELSE [st EXCEPT !.lit = [i \in DOMAIN st.lit |->
                                IF i \in {rest[k] : k \in 1 .. Len(rest)}
                                THEN FALSE ELSE st.lit[i]],
                    !.writes = @ + Len(rest),
                    !.slept = @ + Len(rest) * lb.delay]

\* The loop over the pixels that remain in the queue.
RECURSIVE pixels_rest(_, _, _, _)
pixels_rest(rest, st, lb, measure_time) ==
    IF rest = <<>>
    THEN st
    ELSE pixels_rest(Tail(rest),
                     pixel_step(st, Head(rest), FALSE, lb, measure_time),
                     lb, measure_time)

reversed(seq) == [k \in 1 .. Len(seq) |-> seq[Len(seq) + 1 - k]]

pixels_remainder(st, lb, reverse, measure_time) ==
    pixels_rest(IF reverse THEN reversed(st.queue) ELSE st.queue,
                st, lb, measure_time)

\* pixels_cycle(color, reverse, measure_time): total_time is what the call
\* returns, slept the sum of its sleep_ms durations, writes the number of
\* its pixel writes, lit the strip it leaves.
pixels_cycle(lb, reverse, measure_time) ==
    pixels_remainder(
        pixels_for(IF reverse THEN reversed([k \in 1 .. lb.n |-> k - 1])
                              ELSE [k \in 1 .. lb.n |-> k - 1],
                   PixelsStart(lb.n), lb, measure_time),
        lb, reverse, measure_time)

----------------------------------------------------------------------------
(* server_methods.py helpers *)

\* convert_csv_tuples: the pins of the request, as integers, sorted.
convert_csv_tuples(inputs) == SortSeq(inputs, LAMBDA a, b : a < b)

Range(seq) == {seq[i] : i \in 1 .. Len(seq)}

\* d.pin_list of a device.
pin_list(o, id) == Range(o[id].pin)

\* Position of the key in the registry, 0 when it is no key.
IndexOfKey(o, devs, key) ==
    IF \E i \in 1 .. Len(devs) : o[devs[i]].pin = key
    THEN CHOOSE i \in 1 .. Len(devs) : o[devs[i]].pin = key
    ELSE 0

\* OrderedDict.update({key: id}): in place for a key present, else appended.
DictUpdate(o, devs, key, id) ==
    LET i == IndexOfKey(o, devs, key)
    IN  IF i = 0 THEN Append(devs, id) ELSE [devs EXCEPT ![i] = id]

RemoveAt(seq, i) == SubSeq(seq, 1, i - 1) \o SubSeq(seq, i + 1, Len(seq))

\* The live objects of the heap, and whether a request can build one more.
Live(o) == {i \in ObjIds : o[i].kind # "Free"}
HasFree(o) == Cardinality(Live(o)) < MaxObjects

\* Whether an identity is left for the device that replaces another.
HasSlot(o) == Live(o) # ObjIds

\* The identity of the next object built.
FreshId(o) ==
    CHOOSE i \in ObjIds :
        o[i].kind = "Free" /\ \A j \in ObjIds : j < i => o[j].kind # "Free"

\* An object is kept while the registry, _timer_actions or a pending one-shot
\* refers to it; the rest is reclaimed.
Collect(o, devs, actions) ==
    [i \in ObjIds |->
        IF \/ i \in Range(devs)
           \/ i \in actions
           \/ o[i].safe_stop = "armed"
           \/ o[i].orphans > 0
        THEN o[i] ELSE FreeObj]

\* cls(pin=_pins): the constructors of train_switch.py.  has_n says whether
\* the class was given LightBeam's required argument n.
Construct(s, id, kind, pin, lb, has_n) ==
    IF kind = "DoubleLightBeam" /\ ~has_n
    THEN Raise(s, "TypeError")
    ELSE IF Len(pin) # required_pins(kind)
    THEN Raise(s, "ValueError")
    ELSE LET s1 == [s EXCEPT !.objs[id] = NewObj(kind, pin, lb)]
         IN  CASE kind \in RelayKinds \cup {"StepperMotor"} ->
                     Ok([s1 EXCEPT !.gpio[pin[1]] = 0, !.gpio[pin[2]] = 0,
                                   !.wrote = TRUE])
               [] kind \in OnOffKinds ->
                     Ok([s1 EXCEPT !.gpio[pin[1]] = 0, !.wrote = TRUE])
               [] OTHER -> Ok(s1)

----------------------------------------------------------------------------
(* server_methods.py: the operations.  Each yields the machine state s, the  *)
(* registry, the pin pool and the exception that reached the caller.        *)

Outcome(s, devs, pool, err) ==
    [s |-> s, devices |-> devs, pin_pool |-> pool, err |-> err]

\* Variant of post that takes the requested pins from the pool before it
\* finds one of them unavailable; C6 must tell it from the code.
post_takes_first(inputs, device_type) ==
    IF device_type \notin CLS_MAP
    THEN Outcome(Machine, devices, pin_pool, "ValueError")
    ELSE LET _pins == convert_csv_tuples(inputs)
             _available == \A i \in 1 .. Len(_pins) : _pins[i] \in pin_pool
         IN  IF ~(_available /\ Cardinality(Range(_pins)) = Len(_pins))
             THEN Outcome(Machine, devices, pin_pool \ Range(_pins), "ValueError")
             ELSE LET id == FreshId(objs)
                      r == Construct(Machine, id, device_type, _pins, NoLB, FALSE)
                  IN  IF r.err # "none"
                      THEN Outcome(Machine, devices, pin_pool, r.err)
                      ELSE Outcome(r.s,
                                   DictUpdate(r.s.objs, devices, _pins, id),
                                   pin_pool \ pin_list(r.s.objs, id),
                                   "none")

\* Variant of post that registers the device without taking its pins from
\* the pool; C1 must tell it from the code.
post_keeps_pool(inputs, device_type) ==
    IF device_type \notin CLS_MAP
    THEN Outcome(Machine, devices, pin_pool, "ValueError")
    ELSE LET _pins == convert_csv_tuples(inputs)
             _available == \A i \in 1 .. Len(_pins) : _pins[i] \in pin_pool
         IN  IF ~(_available /\ Cardinality(Range(_pins)) = Len(_pins))
             THEN Outcome(Machine, devices, pin_pool, "ValueError")
             ELSE LET id == FreshId(objs)
                      r == Construct(Machine, id, device_type, _pins, NoLB, FALSE)
                  IN  IF r.err # "none"
                      THEN Outcome(Machine, devices, pin_pool, r.err)
                      ELSE Outcome(r.s,
                                   DictUpdate(r.s.objs, devices, _pins, id),
                                   pin_pool, "none")

\* post(pins, device_type), called on the registry, pool and machine of r.
post_on(r, inputs, device_type) ==
    IF device_type \notin CLS_MAP
    THEN Outcome(r.s, r.devices, r.pin_pool, "ValueError")
    ELSE LET _pins == convert_csv_tuples(inputs)
             _available == \A i \in 1 .. Len(_pins) : _pins[i] \in r.pin_pool
         IN  IF ~(_available /\ Cardinality(Range(_pins)) = Len(_pins))
             THEN Outcome(r.s, r.devices, r.pin_pool, "ValueError")
             ELSE LET id == FreshId(r.s.objs)
                      c == Construct(r.s, id, device_type, _pins, NoLB, FALSE)
                  IN  IF c.err # "none"
                      THEN Outcome(r.s, r.devices, r.pin_pool, c.err)
                      ELSE Outcome(c.s,
                                   DictUpdate(c.s.objs, r.devices, _pins, id),
                                   r.pin_pool \ pin_list(c.s.objs, id),
                                   "none")

\* post(pins, device_type)
post(inputs, device_type) ==
    post_on(Outcome(Machine, devices, pin_pool, "none"), inputs, device_type)

\* delete(pins)
delete(inputs) ==
    LET _pins == convert_csv_tuples(inputs)
        i == IndexOfKey(objs, devices, _pins)
    IN  IF i = 0
        THEN Outcome(Machine, devices, pin_pool, "none")
        ELSE LET id == devices[i]
                 r == close(Machine, id)
             IN  IF r.err # "none"
                 THEN Outcome(r.s, RemoveAt(devices, i), pin_pool, r.err)
                 ELSE Outcome(r.s, RemoveAt(devices, i),
                              pin_pool \cup pin_list(objs, id), "none")

\* The device a pins string addresses: ServerMethods.devices[str(_pins)].
Lookup(inputs) == IndexOfKey(objs, devices, convert_csv_tuples(inputs))

\* Variant of the command of toggle_pins that compares the latched state with
\* off_state instead of on_state; C35 must tell it from the code.
Cmd_off_unless_off(op, o) ==
    CASE op = "on" -> on_state(o.kind)
      [] op = "off" -> off_state(o.kind)
      [] op = "reset" -> None
      [] op = "toggle" ->
            IF o.state = off_state(o.kind)
            THEN on_state(o.kind)
            ELSE off_state(o.kind)
      [] op = "invalid" -> "bogus"

\* The command on_pins, off_pins, reset_pins and toggle_pins pass to
\* device.action: on_state, off_state, None, and for toggle off_state when the
\* device is in on_state, else on_state.  "invalid" is device.action with a
\* string that is no state of any class, as construct_from_cfg passes the
\* "state" of a profile document on.
Cmd(op, o) ==
    CASE op = "on" -> on_state(o.kind)
      [] op = "off" -> off_state(o.kind)
      [] op = "reset" -> None
      [] op = "toggle" ->
            IF o.state = on_state(o.kind)
            THEN off_state(o.kind)
            ELSE on_state(o.kind)
      [] op = "invalid" -> "bogus"

\* on_pins, off_pins, reset_pins, toggle_pins: device.action(c) on the
\* addressed device; a pins string that is no key raises KeyError.
ActionAt(inputs, op) ==
    LET i == Lookup(inputs)
    IN  IF i = 0
        THEN Outcome(Machine, devices, pin_pool, "KeyError")
        ELSE LET r == action(Machine, devices[i], Cmd(op, objs[devices[i]]))
             IN  Outcome(r.s, devices, pin_pool, r.err)

\* Variant of index_to_pins that takes the index as 0-based; C20 must tell it
\* from the code.
index_to_pins_zero_based(device) ==
    LET order == [i \in 1 .. Len(devices) |-> objs[devices[i]].pin]
        at == IF device >= 0 THEN device + 1 ELSE Len(order) + device + 1
    IN  IF at \in 1 .. Len(order)
        THEN [pins |-> order[at], err |-> "none"]
        ELSE [pins |-> <<>>, err |-> "IndexError"]

\* index_to_pins(device) of src/app: the key at position device - 1 of the
\* registry's keys, a negative position counting from the end as list
\* indexing does.
index_to_pins(device) ==
    LET order == [i \in 1 .. Len(devices) |-> objs[devices[i]].pin]
        at == IF device - 1 >= 0 THEN device ELSE Len(order) + device
    IN  IF at \in 1 .. Len(order)
        THEN [pins |-> order[at], err |-> "none"]
        ELSE [pins |-> <<>>, err |-> "IndexError"]

\* toggle_index(device) and reset_index(device): the action of toggle_pins
\* and reset_pins on the device index_to_pins names.
IndexAction(device, op) ==
    LET k == index_to_pins(device)
    IN  IF k.err # "none"
        THEN Outcome(Machine, devices, pin_pool, k.err)
        ELSE ActionAt(k.pins, op)

\* No file under the profile's name, and a file ujson.loads cannot decode.
NoProfile == [exists |-> FALSE, readable |-> FALSE, order |-> <<>>, cfg |-> <<>>]
Unreadable == [exists |-> TRUE, readable |-> FALSE, order |-> <<>>, cfg |-> <<>>]

\* The name the profile of the model is saved under, another profile name,
\* and the name of the file that holds the favorite.
ProfileName == "layout"
OtherName == "spare"
_FAVORITE_FILE == "__favorite_profile__"

\* No file at _FAVORITE_PATH.
NoFavorite == ""

\* What the profile folder holds after an operation on it, and the exception
\* that reached the caller.
Stored(doc, fav, err) == [profile |-> doc, favorite |-> fav, err |-> err]

\* remove_json(name): os.remove of the profile's file, then the favorite file
\* is read and, when it names the profile, removed.  os.remove of a file that
\* does not exist and open of a file that does not exist raise OSError.
remove_json(name, doc, fav) ==
    IF name # ProfileName \/ ~doc.exists
    THEN Stored(doc, fav, "OSError")
    ELSE IF fav = NoFavorite
    THEN Stored(NoProfile, fav, "OSError")
    ELSE IF name = fav
    THEN Stored(NoProfile, NoFavorite, "none")
    ELSE Stored(NoProfile, fav, "none")

\* add_favorite_profile(name)
add_favorite_profile(name, doc, fav) ==
    IF name = _FAVORITE_FILE
    THEN Stored(doc, fav, "ValueError")
    ELSE Stored(doc, name, "none")

\* delete_favorite_profile()
delete_favorite_profile(doc, fav) ==
    IF fav = NoFavorite
    THEN Stored(doc, fav, "OSError")
    ELSE Stored(doc, NoFavorite, "none")

\* The last operation was no load_json that reached construct_from_cfg.
NoLoad ==
    [reached |-> FALSE, objs |-> <<>>, gpio |-> <<>>, devices |-> <<>>,
     pin_pool |-> {}, actions |-> {}]

\* The objects with hardware handles that are neither closed nor held by the
\* registry devs.
LeftOpen(o, devs) ==
    {i \in ObjIds : /\ o[i].kind \notin {"Free", "EmptySwitch"}
                    /\ ~o[i].closed
                    /\ i \notin Range(devs)}

\* The effect of an operation becomes the next state; objects nothing refers
\* to any more are reclaimed.
Effect(r, l) ==
    /\ \A i \in ObjIds : r.s.objs[i].orphans <= MaxOrphans
    /\ objs' = Collect(r.s.objs, r.devices, r.s.actions)
    /\ gpio' = r.s.gpio
    /\ devices' = r.devices
    /\ pin_pool' = r.pin_pool
    /\ timer_armed' = r.s.armed
    /\ timer_period' = r.s.period
    /\ timer_actions' = r.s.actions
    /\ last' = [l EXCEPT !.hw = r.s.wrote, !.hot_init = r.s.hot_init,
                         !.hot_write = r.s.hot_write,
                         !.left_open = LeftOpen(r.s.objs, r.devices),
                         !.both = r.s.both]
    /\ pixels_call' = pixels_call
    /\ timer_call' = timer_call
    /\ favorite_file' = favorite_file

\* An operation that neither writes nor loads a profile.
Commit(r, l) ==
    /\ Effect(r, l)
    /\ profile' = profile
    /\ load_mid' = NoLoad

\* light_beam_factory(name): the LightBeam class the device type names, with
\* two pins and the parameters the name carries.
light_beam_factory(device_type) ==
    [name |-> "DoubleLightBeam", lb |-> device_type.lb, has_n |-> TRUE]

\* The class change_pins resolves a device type to: CLS_MAP.get, or the
\* factory for a light-beam name; NoClass stands for None.
NoClass == [name |-> "None", lb |-> NoLB, has_n |-> FALSE]
new_cls(device_type) ==
    IF device_type.lb # NoLB
    THEN light_beam_factory(device_type)
    ELSE IF device_type.name \in CLS_MAP
    THEN [name |-> device_type.name, lb |-> NoLB, has_n |-> FALSE]
    ELSE NoClass

\* Variant of change_pins that registers the new device at the end of the
\* registry; C17 must tell it from the code.
change_pins_appends(inputs, device_type) ==
    LET cls == new_cls(device_type)
        _pins == convert_csv_tuples(inputs)
        i == IndexOfKey(objs, devices, _pins)
    IN  IF cls = NoClass \/ i = 0 \/ Len(_pins) # required_pins(cls.name)
        THEN Outcome(Machine, devices, pin_pool, "ValueError")
        ELSE LET r1 == close(Machine, devices[i])
                 id == FreshId(objs)
                 r2 == Bind(r1, LAMBDA t :
                           Construct(t, id, cls.name, _pins, cls.lb, cls.has_n))
             IN  IF r2.err # "none"
                 THEN Outcome(r2.s, devices, pin_pool, r2.err)
                 ELSE Outcome(r2.s, Append(RemoveAt(devices, i), id),
                              pin_pool, "none")

\* Variant of change_pins that closes the device at the pins before it
\* looks at the new class; C18 must tell it from the code.
change_pins_closes_first(inputs, device_type) ==
    LET cls == new_cls(device_type)
        _pins == convert_csv_tuples(inputs)
        i == IndexOfKey(objs, devices, _pins)
    IN  IF i = 0
        THEN Outcome(Machine, devices, pin_pool, "ValueError")
        ELSE LET r1 == close(Machine, devices[i])
                 id == FreshId(objs)
                 r2 == Bind(r1, LAMBDA t :
                           Construct(t, id, cls.name, _pins, cls.lb, cls.has_n))
             IN  IF r1.err # "none"
                 THEN Outcome(r1.s, devices, pin_pool, r1.err)
                 ELSE IF cls = NoClass \/ Len(_pins) # required_pins(cls.name)
                 THEN Outcome(r1.s, devices, pin_pool, "ValueError")
                 ELSE IF r2.err # "none"
                 THEN Outcome(r2.s, devices, pin_pool, r2.err)
                 ELSE Outcome(r2.s, [devices EXCEPT ![i] = id], pin_pool, "none")

\* change_pins(pins, device_type)
change_pins(inputs, device_type) ==
    LET cls == new_cls(device_type)
        _pins == convert_csv_tuples(inputs)
        i == IndexOfKey(objs, devices, _pins)
    IN  IF cls = NoClass \/ i = 0
        THEN Outcome(Machine, devices, pin_pool, "ValueError")
        ELSE LET current_device == devices[i]
                 current_pin_amount == required_pins(objs[current_device].kind)
             IN  IF Len(_pins) # required_pins(cls.name)
                 THEN Outcome(Machine, devices, pin_pool, "ValueError")
                 ELSE IF current_pin_amount # required_pins(cls.name)
                 THEN Outcome(Machine, devices, pin_pool, "ValueError")
                 ELSE LET r1 == close(Machine, current_device)
                          id == FreshId(objs)
                          r2 == Bind(r1, LAMBDA t :
                                    Construct(t, id, cls.name, _pins,
                                              cls.lb, cls.has_n))
                      IN  IF r2.err # "none"
                          THEN Outcome(r2.s, devices, pin_pool, r2.err)
                          ELSE Outcome(r2.s, [devices EXCEPT ![i] = id],
                                       pin_pool, "none")

\* update_pin_pool(devices): the universe minus the pins of the devices,
\* taken one by one; a pin met twice raises PinNotInPinPool.
RECURSIVE update_pin_pool(_, _, _)
update_pin_pool(o, devs, pool) ==
    IF devs = <<>>
    THEN [pool |-> pool, err |-> "none"]
    ELSE LET pins == pin_list(o, Head(devs))
         IN  IF ~(pins \subseteq pool)
             THEN [pool |-> pool, err |-> "PinNotInPinPool"]
             ELSE update_pin_pool(o, Tail(devs), pool \ pins)

\* The loop of close_devices: device.close() in registry order, stopping at
\* the first exception.
RECURSIVE close_all(_, _)
close_all(s, devs) ==
    IF devs = <<>>
    THEN Ok(s)
    ELSE Bind(close(s, Head(devs)), LAMBDA t : close_all(t, Tail(devs)))

\* close_devices(devices) on the registry, pool and machine of r: the devices
\* are closed and the pin pool is reset; the registry keeps its entries.
close_devices_on(r) ==
    LET c == close_all(r.s, r.devices)
    IN  IF c.err # "none"
        THEN Outcome(c.s, r.devices, r.pin_pool, c.err)
        ELSE Outcome(c.s, r.devices,
                     update_pin_pool(c.s.objs, <<>>, GPIO_PINS).pool, "none")

\* close_devices(ServerMethods.devices), as shutdown() calls it.
close_devices == close_devices_on(Outcome(Machine, devices, pin_pool, "none"))

----------------------------------------------------------------------------
(* server_methods.py: profiles *)

\* BinaryDevice.to_json
to_json(o, id) ==
    [pins |-> o[id].pin, state |-> o[id].state, name |-> o[id].kind]

\* devices_to_json: the mapping from str(pins) to the device's to_json.
devices_to_json(o, devs) ==
    [k \in {o[devs[i]].pin : i \in 1 .. Len(devs)} |->
        to_json(o, devs[IndexOfKey(o, devs, k)])]

\* The document save_json writes: the mapping, whose key order the decoder
\* does not keep, and the list "order" of its keys.
save_json(o, devs) ==
    [exists |-> TRUE, readable |-> TRUE,
     order |-> [i \in 1 .. Len(devs) |-> o[devs[i]].pin],
     cfg |-> devices_to_json(o, devs)]

\* First loop of construct_from_cfg: CLS_MAP.get(v["name"])(pin=_pins) for
\* each entry, in the order of cfg.
RECURSIVE construct_loop(_, _, _)
construct_loop(s, devs, cfg) ==
    IF cfg = <<>>
    THEN [s |-> s, devices |-> devs, err |-> "none"]
    ELSE LET v == Head(cfg)
             id == FreshId(s.objs)
             c == IF v.name \in CLS_MAP
                  THEN Construct(s, id, v.name, v.pins, NoLB, FALSE)
                  ELSE Raise(s, "TypeError")
         IN  IF c.err # "none"
             THEN [s |-> c.s, devices |-> devs, err |-> c.err]
             ELSE construct_loop(c.s, DictUpdate(c.s.objs, devs, v.pins, id),
                                 Tail(cfg))

\* Second loop of construct_from_cfg: v.action(cfg[str(k)]["state"]).
RECURSIVE set_states(_, _, _)
set_states(s, devs, cfg) ==
    IF devs = <<>>
    THEN Ok(s)
    ELSE Bind(action(s, Head(devs), cfg[s.objs[Head(devs)].pin].state),
              LAMBDA t : set_states(t, Tail(devs), cfg))

\* construct_from_cfg(cfg), cfg the entries of the document in saved order.
construct_from_cfg(s, order, cfg) ==
    LET k == construct_loop(s, <<>>, [i \in 1 .. Len(order) |-> cfg[order[i]]])
    IN  IF k.err # "none"
        THEN k
        ELSE LET a == set_states(k.s, k.devices, cfg)
             IN  [s |-> a.s, devices |-> k.devices, err |-> a.err]

\* What load_json leaves behind: the outcome, and the state in which
\* construct_from_cfg began.
Loaded(out, mid) == [out |-> out, mid |-> mid]

\* The state a load_json call is in when it enters construct_from_cfg.
MidLoad(s, devs, pool) ==
    [reached |-> TRUE, objs |-> s.objs, gpio |-> s.gpio, devices |-> devs,
     pin_pool |-> pool, actions |-> s.actions]

\* The end of load_json: ServerMethods.devices is assigned the new registry k,
\* then the pin pool what update_pin_pool makes of it.
load_json_assign(k, pool, u, mid) ==
    IF u.err # "none"
    THEN Loaded(Outcome(k.s, k.devices, pool, u.err), mid)
    ELSE Loaded(Outcome(k.s, k.devices, u.pool, "none"), mid)

\* Variant of load_json that starts the new devices before it closes the
\* old ones; C15 must tell it from the code.
load_json_constructs_first(r, doc) ==
    IF ~doc.exists THEN Loaded(Outcome(r.s, r.devices, r.pin_pool, "OSError"), NoLoad)
    ELSE IF ~doc.readable
    THEN Loaded(Outcome(r.s, r.devices, r.pin_pool, "ValueError"), NoLoad)
    ELSE LET mid == MidLoad(r.s, r.devices, r.pin_pool)
             k == construct_from_cfg(r.s, doc.order, doc.cfg)
             c == close_devices_on(Outcome(k.s, r.devices, r.pin_pool, "none"))
         IN  IF k.err # "none"
             THEN Loaded(Outcome(k.s, r.devices, r.pin_pool, k.err), mid)
             ELSE IF c.err # "none" THEN Loaded(c, mid)
             ELSE load_json_assign([k EXCEPT !.s = c.s], c.pin_pool,
                      update_pin_pool(c.s.objs, k.devices, GPIO_PINS), mid)

\* load_json after close_devices returned c: construct_from_cfg(cfg) yields k;
\* when it raises, the registry is still the old one.
load_json_construct(c, k, mid) ==
    IF k.err # "none"
    THEN Loaded(Outcome(k.s, c.devices, c.pin_pool, k.err), mid)
    ELSE load_json_assign(k, c.pin_pool,
                          update_pin_pool(k.s.objs, k.devices, GPIO_PINS), mid)

\* load_json from its close_devices call on, c the outcome of that call.
load_json_close(c, doc) ==
    IF c.err # "none" THEN Loaded(c, NoLoad)
    ELSE load_json_construct(c, construct_from_cfg(c.s, doc.order, doc.cfg),
                             MidLoad(c.s, c.devices, c.pin_pool))

\* load_json(name) on the registry, pool and machine of r, doc the content of
\* the profile's file: open() raises for a missing file, ujson.loads for a
\* document it cannot decode.
load_json(r, doc) ==
    IF ~doc.exists THEN Loaded(Outcome(r.s, r.devices, r.pin_pool, "OSError"), NoLoad)
    ELSE IF ~doc.readable
    THEN Loaded(Outcome(r.s, r.devices, r.pin_pool, "ValueError"), NoLoad)
    ELSE load_json_close(close_devices_on(r), doc)

\* The pins strings of load_default_devices: "0,1", "2,3", ... as far as the
\* pins reach.
DefaultLayout == [k \in 1 .. (NumPins \div 2) |-> <<2 * k - 2, 2 * k - 1>>]
DEFAULT_DEVICE == "RelayTrainSwitch"

\* load_default_devices: the posts in turn; an exception ends the sequence.
RECURSIVE load_default_devices(_, _)
load_default_devices(r, layout) ==
    IF layout = <<>> \/ r.err # "none"
    THEN r
    ELSE load_default_devices(post_on(r, Head(layout), DEFAULT_DEVICE),
                              Tail(layout))

\* The except branch and the else branch of load_devices: the default layout
\* is loaded when no favorite was named and when load_json raised.
load_devices_fallback(named, l) ==
    IF named /\ l.out.err = "none"
    THEN [out |-> l.out, mid |-> l.mid, loaded |-> "favorite"]
    ELSE [out |-> load_default_devices(
                      Outcome(l.out.s, l.out.devices, l.out.pin_pool, "none"),
                      DefaultLayout),
          mid |-> l.mid, loaded |-> "default"]

\* load_devices(): favorite says whether the favorite pointer exists; it
\* names the profile whose file content is doc.
load_devices(r, favorite, doc) ==
    load_devices_fallback(favorite /\ doc.exists,
        IF favorite /\ doc.exists THEN load_json(r, doc) ELSE Loaded(r, NoLoad))

\* The record of a completed operation: its name, the object it addressed
\* (0 for none), the pins of a create request or the index of an
\* index-addressed request, the command or device type,
\* the latched state of the addressed device before the call, the exception
\* that reached the caller, whether an output line was driven, whether
\* the periodic timer was initialised or its map written while it was armed,
\* for a tick the callbacks it called and a phase that tells it from the
\* tick before, and the objects that were open outside the registry when the
\* operation ended, before unreferenced objects were reclaimed.
Op(op, id, pins, arg, pre, err) ==
    [op |-> op, id |-> id, pins |-> pins, arg |-> arg, pre |-> pre,
     err |-> err, hw |-> FALSE, hot_init |-> FALSE, hot_write |-> FALSE,
     ran |-> <<>>, phase |-> 0, left_open |-> {}, both |-> {}]

\* The main context is in no call of enqueue_to_timer or dequeue_from_timer.
NoTimerCall == [pc |-> "idle", fn |-> "", id |-> 0]

IsLightBeam(id) == id # 0 /\ objs[id].kind = "DoubleLightBeam"

\* The latched state of object id, "" for no object.
StateOf(id) == IF id = 0 THEN "" ELSE objs[id].state

\* The object a successful post built, 0 for a rejected one.
Built(r) == IF r.err = "none" THEN FreshId(objs) ELSE 0

Target(inputs) == IF Lookup(inputs) = 0 THEN 0 ELSE devices[Lookup(inputs)]

\* The object an index addresses, 0 for none.
IndexTarget(device) ==
    IF index_to_pins(device).err # "none" THEN 0
    ELSE Target(index_to_pins(device).pins)

\* The pins strings of create requests: one pin, the same pin twice, and two
\* neighbouring pins written in descending order.
PinRequests ==
    {<<0>>, <<0, 0>>}
    \cup {p \in GPIO_PINS \X GPIO_PINS : p[1] = p[2] + 1}

\* The pins strings that address a registered device, and one that does not.
Keys == {objs[devices[i]].pin : i \in 1 .. Len(devices)}
KeyRequests == Keys \cup {<<0>>}

\* The device types of create requests.
PostTypes ==
    {"RelayTrainSwitch", "DoubleDisconnect", "DoubleLightBeam", "Disconnect"}

\* The device types of change requests.
ChangeTypes ==
    {[name |-> k, lb |-> NoLB] :
        k \in {"RelayTrainSwitch", "DoubleDisconnect", "Disconnect"}}
    \cup {[name |-> "LightBeam", lb |-> p] : p \in LightBeamParams}

----------------------------------------------------------------------------
(* Actions *)

PostAt(requests, types) ==
    \E inputs \in requests, device_type \in types :
        /\ HasFree(objs)
        /\ LET r == post(inputs, device_type)
           IN  Commit(r, Op("post", Built(r), convert_csv_tuples(inputs),
                            device_type, "", r.err))

PostOf(types) == PostAt(PinRequests, types)

Post == PostOf(PostTypes)

\* post of each class of CLS_MAP on the pins "1,0".
PostDevice == PostAt({<<1, 0>>}, CLS_MAP)

\* post with device type Disconnect's two-pin class.
PostDisconnect == PostOf({"DoubleDisconnect"})

Delete ==
    \E inputs \in KeyRequests :
        LET r == delete(inputs)
            id == Target(inputs)
        IN  Commit(r, Op("delete", id, convert_csv_tuples(inputs), "",
                         StateOf(id), r.err))

ChangeAt(requests, types) ==
    \E inputs \in requests, device_type \in types :
        /\ HasSlot(objs)
        /\ LET r == change_pins(inputs, device_type)
               id == Target(inputs)
           IN  Commit(r, Op("change", id, <<>>, device_type.name,
                            StateOf(id), r.err))

ChangeOf(types) == ChangeAt(KeyRequests, types)

Change == HasFree(objs) /\ ChangeOf(ChangeTypes)

\* change_pins to a light-beam type.
ChangeLightBeam ==
    /\ HasFree(objs)
    /\ ChangeOf({[name |-> "LightBeam", lb |-> p] : p \in LightBeamParams})

\* change_pins of a registered relay switch to a light-beam type, also in a
\* registry that holds MaxObjects devices.
ChangeBeam ==
    ChangeAt({k \in Keys : objs[Target(k)].kind = "RelayTrainSwitch"},
             {[name |-> "LightBeam", lb |-> p] : p \in LightBeamParams})

\* change_pins to a relay switch, a Disconnect, or a type that is no key of
\* CLS_MAP, also in a registry that holds MaxObjects devices.
ChangeRelay ==
    ChangeOf({[name |-> k, lb |-> NoLB] :
                 k \in {"RelayTrainSwitch", "DoubleDisconnect", "Disconnect"}})

Shutdown ==
    LET r == close_devices
    IN  Commit(r, Op("shutdown", 0, <<>>, "", "", r.err))

\* device.action(Cmd(device)) through on_pins, off_pins, reset_pins, toggle_pins
DeviceOp(op) ==
    \E inputs \in KeyRequests :
        LET r == ActionAt(inputs, op)
            id == Target(inputs)
        IN  Commit(r, Op(op, id, <<>>,
                         IF id = 0 THEN "" ELSE Cmd(op, objs[id]),
                         StateOf(id), r.err))

OnPins == DeviceOp("on")
OffPins == DeviceOp("off")
ResetPins == DeviceOp("reset")
TogglePins == DeviceOp("toggle")

\* toggle_index and reset_index of src/app, for the indices -1 .. MaxObjects + 1
IndexOp(op) ==
    \E device \in (0 - 1) .. (MaxObjects + 1) :
        LET r == IndexAction(device, op)
            id == IndexTarget(device)
        IN  Commit(r, Op(op \o "_index", id, <<device>>,
                         IF id = 0 THEN "" ELSE Cmd(op, objs[id]),
                         StateOf(id), r.err))

ToggleIndex == IndexOp("toggle")
ResetIndex == IndexOp("reset")

\* device.action("bogus") on a registered device.
InvalidAction == DeviceOp("invalid")

\* A pending safety one-shot of device id fires: the one safe_stop refers to,
\* or one it no longer refers to.  An exception in the callback is dropped.
OneShotFire ==
    \E id \in ObjIds, referenced \in BOOLEAN :
        /\ IF referenced THEN objs[id].safe_stop = "armed"
                         ELSE objs[id].orphans > 0
        /\ LET s0 == IF referenced
                     THEN [Machine EXCEPT !.objs[id].safe_stop = "dead"]
                     ELSE [Machine EXCEPT !.objs[id].orphans = @ - 1]
               r == safe_close_relay(s0, id)
           IN  Commit(Outcome(r.s, devices, pin_pool, r.err),
                      Op("oneshot", id, <<>>, "", StateOf(id), r.err))

\* The periodic timer fires: _timer_callback runs every registered on_action,
\* each a full chase that ends with the strip dark.
Tick ==
    /\ timer_armed
    /\ Commit(Outcome(Machine, devices, pin_pool, "none"),
              [Op("tick", 0, <<>>, "", "", "none") EXCEPT
                   !.ran = _timer_callback(Machine),
                   !.phase = IF last.op = "tick" THEN 1 - last.phase ELSE 0])

\* pixels_cycle(color, reverse, measure_time) in either mode.
PixelsCycle ==
    /\ ~pixels_call.done
    /\ \E measure_time \in BOOLEAN :
           pixels_call' =
               [pixels_call EXCEPT
                    !.measure_time = measure_time,
                    !.done = TRUE,
                    !.out = pixels_cycle(pixels_call.lb, pixels_call.reverse,
                                         measure_time)]
    /\ UNCHANGED <<objs, gpio, devices, pin_pool, timer_armed, timer_period,
                   timer_actions, last, profile, load_mid, timer_call,
                   favorite_file>>

\* save_json(name)
Save ==
    /\ Effect(Outcome(Machine, devices, pin_pool, "none"),
              Op("save", 0, <<>>, "", "", "none"))
    /\ profile' = save_json(objs, devices)
    /\ load_mid' = NoLoad

\* The next state after an operation on the profile folder alone.
EffectStore(r, op, arg) ==
    /\ profile' = r.profile
    /\ favorite_file' = r.favorite
    /\ last' = Op(op, 0, <<>>, arg,
                  IF profile.exists THEN "exists" ELSE "absent", r.err)
    /\ load_mid' = NoLoad
    /\ UNCHANGED <<objs, gpio, devices, pin_pool, timer_armed, timer_period,
                   timer_actions, pixels_call, timer_call>>

\* remove_json(name)
Remove ==
    \E name \in {ProfileName, OtherName} :
        EffectStore(remove_json(name, profile, favorite_file), "remove", name)

\* add_favorite_profile(name)
AddFavorite ==
    \E name \in {ProfileName, OtherName, _FAVORITE_FILE} :
        EffectStore(add_favorite_profile(name, profile, favorite_file),
                    "add_favorite", name)

\* delete_favorite_profile()
DeleteFavorite ==
    EffectStore(delete_favorite_profile(profile, favorite_file),
                "delete_favorite", "")

\* Whether the heap holds the devices of the document beside the live ones.
HasRoom(doc, more) ==
    Cardinality(Live(objs)) + Len(doc.order) + more <= Cardinality(ObjIds)

\* The next state after a load: l is what load_json or load_devices left.
EffectLoad(l, op, arg) ==
    /\ Effect(l.out, Op(op, 0, <<>>, arg, "", l.out.err))
    /\ load_mid' = l.mid
    /\ profile' = profile

\* load_json(name)
Load ==
    /\ HasRoom(profile, 0)
    /\ EffectLoad(load_json(Outcome(Machine, devices, pin_pool, "none"), profile),
                  "load", "")

\* The next state after load_devices; the argument recorded is whether the
\* favorite profile was loaded or the default layout.
EffectLoadDevices(l) == EffectLoad(l, "load_devices", l.loaded)

\* load_devices(), the startup path of main.py
LoadDevices ==
    \E favorite \in BOOLEAN :
        /\ last.op = "init"
        /\ HasRoom(profile, Len(DefaultLayout))
        /\ EffectLoadDevices(load_devices(Outcome(Machine, devices, pin_pool, "none"),
                                          favorite, profile))

\* The next state after one statement of a timer call the main context is in.
Step(s, l, call) ==
    /\ objs' = s.objs
    /\ gpio' = s.gpio
    /\ timer_armed' = s.armed
    /\ timer_period' = s.period
    /\ timer_actions' = s.actions
    /\ last' = [l EXCEPT !.hot_init = s.hot_init, !.hot_write = s.hot_write]
    /\ timer_call' = call
    /\ UNCHANGED <<devices, pin_pool, profile, load_mid, pixels_call,
                   favorite_file>>

\* on_pins or off_pins on an open LightBeam, up to and including the
\* stop_timer() of the enqueue_to_timer or dequeue_from_timer it calls: the
\* command is latched (StatefulBinaryDevice.action) and the timer stopped.
TimerCallBegins ==
    \E inputs \in Keys, op \in {"on", "off"} :
        /\ timer_call = NoTimerCall
        /\ IsLightBeam(Target(inputs))
        /\ ~objs[Target(inputs)].closed
        /\ objs[Target(inputs)].state # Cmd(op, objs[Target(inputs)])
        /\ Step(stop_timer(state_setter(Machine, Target(inputs),
                                        Cmd(op, objs[Target(inputs)])).s),
                Op("stop_timer", Target(inputs), <<>>, op,
                   StateOf(Target(inputs)), "none"),
                [pc |-> "stopped",
                 fn |-> IF op = "on" THEN "enqueue" ELSE "dequeue",
                 id |-> Target(inputs)])

\* The write to _timer_actions of the call begun; a KeyError ends the call.
TimerCallWrites ==
    /\ timer_call.pc = "stopped"
    /\ Step(timer_write(Machine, timer_call.fn, timer_call.id).s,
            Op("write", timer_call.id, <<>>, timer_call.fn, "",
               timer_write(Machine, timer_call.fn, timer_call.id).err),
            IF timer_write(Machine, timer_call.fn, timer_call.id).err = "none"
            THEN [timer_call EXCEPT !.pc = "written"]
            ELSE NoTimerCall)

\* The start_timer() that ends the call.
TimerCallRestarts ==
    /\ timer_call.pc = "written"
    /\ Step(start_timer(Machine),
            Op("start_timer", timer_call.id, <<>>, timer_call.fn, "", "none"),
            NoTimerCall)

\* The machine after power-up: no device, every pin free, the timer idle.
InitMachine ==
    /\ objs = [i \in ObjIds |-> FreeObj]
    /\ gpio = [p \in GPIO_PINS |-> 0]
    /\ devices = <<>>
    /\ pin_pool = GPIO_PINS
    /\ timer_armed = FALSE
    /\ timer_period = 0
    /\ timer_actions = {}
    /\ last = Op("init", 0, <<>>, "", "", "none")
    /\ load_mid = NoLoad
    /\ timer_call = NoTimerCall
    /\ favorite_file = NoFavorite

\* No call of pixels_cycle.
NoCall ==
    [lb |-> NoLB, reverse |-> FALSE, measure_time |-> FALSE, done |-> FALSE,
     out |-> PixelsStart(0)]

Init ==
    /\ InitMachine
    /\ profile = NoProfile
    /\ pixels_call = NoCall

\* The LightBeams LightBeam.__init__ accepts, up to MaxPixels pixels and a
\* delay of MaxDelay: beam_length <= n and delay >= 0.
PixelsInputs ==
    {[n |-> n, delay |-> d, beam_length |-> b, reverse_at_end |-> FALSE] :
        n \in 0 .. MaxPixels, d \in 0 .. MaxDelay, b \in 0 .. MaxPixels}

\* A LightBeam and the direction of a pixels_cycle call about to be made.
InitPixels ==
    /\ InitMachine
    /\ profile = NoProfile
    /\ \E lb \in {x \in PixelsInputs : x.beam_length <= x.n},
          reverse \in BOOLEAN :
           pixels_call = [NoCall EXCEPT !.lb = lb, !.reverse = reverse,
                                        !.out = PixelsStart(lb.n)]

\* A document of the entries given, in their order.
DocOf(entries) ==
    [exists |-> TRUE, readable |-> TRUE,
     order |-> [i \in 1 .. Len(entries) |-> entries[i].pins],
     cfg |-> [k \in {entries[i].pins : i \in 1 .. Len(entries)} |->
                entries[CHOOSE i \in 1 .. Len(entries) : entries[i].pins = k]]]

\* The favorite profile's file at power-up: absent, not decodable, a saved
\* registry, one whose devices share pin 1, one whose device has one pin too
\* few, and one whose second device has a state that is no command.
StartupProfiles ==
    {NoProfile, Unreadable,
     DocOf(<<[pins |-> <<0, 1>>, state |-> "straight", name |-> "RelayTrainSwitch"],
             [pins |-> <<2, 3>>, state |-> "on", name |-> "DoubleDisconnect"]>>),
     DocOf(<<[pins |-> <<0, 1>>, state |-> None, name |-> "RelayTrainSwitch"],
             [pins |-> <<1, 2>>, state |-> None, name |-> "RelayTrainSwitch"]>>),
     DocOf(<<[pins |-> <<0>>, state |-> None, name |-> "RelayTrainSwitch"]>>),
     DocOf(<<[pins |-> <<0, 1>>, state |-> "on", name |-> "DoubleDisconnect"],
             [pins |-> <<2, 3>>, state |-> "bogus", name |-> "RelayTrainSwitch"]>>)}

InitStartup ==
    /\ InitMachine
    /\ profile \in StartupProfiles
    /\ pixels_call = NoCall

Next ==
    \/ Post
    \/ Delete
    \/ Change
    \/ OnPins
    \/ OffPins
    \/ ResetPins
    \/ TogglePins
    \/ OneShotFire
    \/ Tick

Spec == Init /\ [][Next]_vars

\* Create and delete requests alone.
NextCreateDelete ==
    \/ Post
    \/ Delete

SpecCreateDelete == Init /\ [][NextCreateDelete]_vars

\* Disconnect devices alone: created, commanded, timed out and deleted.
NextDisconnect ==
    \/ PostDisconnect
    \/ Delete
    \/ OnPins
    \/ OffPins
    \/ ResetPins
    \/ TogglePins
    \/ OneShotFire

SpecDisconnect == Init /\ [][NextDisconnect]_vars

\* The operations around the close-all of shutdown.
NextShutdown ==
    \/ Post
    \/ Delete
    \/ Shutdown
    \/ OnPins
    \/ OffPins
    \/ OneShotFire

SpecShutdown == Init /\ [][NextShutdown]_vars

\* Profiles: devices are created, changed and commanded, the registry is
\* saved and loaded.
PostPairs ==
    PostAt({<<1, 0>>, <<3, 2>>}, {"RelayTrainSwitch", "DoubleDisconnect"})

NextProfile ==
    \/ PostPairs
    \/ ChangeLightBeam
    \/ OnPins
    \/ Save
    \/ Load

SpecProfile == Init /\ [][NextProfile]_vars

\* Changes of device type, among commands, time-outs and the close-all.
NextChange ==
    \/ PostPairs
    \/ ChangeRelay
    \/ OnPins
    \/ Shutdown
    \/ OneShotFire

SpecChange == Init /\ [][NextChange]_vars

\* Index-addressed commands to a registry that creates, deletes and changes
\* reorder.
NextIndex ==
    \/ PostPairs
    \/ Delete
    \/ ChangeRelay
    \/ ToggleIndex
    \/ ResetIndex
    \/ OneShotFire

SpecIndex == Init /\ [][NextIndex]_vars

\* post of a relay switch on the pins "1,0" and "3,2".
PostRelays == PostAt({<<1, 0>>, <<3, 2>>}, {"RelayTrainSwitch"})

\* The timer module and the LightBeams that use it: created through
\* change_pins, commanded with legal and illegal commands, and the periodic
\* timer firing.
NextTimer ==
    \/ PostRelays
    \/ ChangeBeam
    \/ OnPins
    \/ OffPins
    \/ ResetPins
    \/ InvalidAction
    \/ Tick

SpecTimer == Init /\ [][NextTimer]_vars

\* post of a relay switch on the pins "1,0", of a Disconnect on "3,2".
PostRelay == PostAt({<<1, 0>>}, {"RelayTrainSwitch"})
PostInterlock == PostAt({<<3, 2>>}, {"DoubleDisconnect"})

\* A LightBeam beside a Disconnect: both switched on and off while the
\* periodic timer and the safety one-shots fire.  A hardware timer that is
\* armed fires eventually.
NextFair ==
    \/ PostRelay
    \/ PostInterlock
    \/ ChangeBeam
    \/ OnPins
    \/ OffPins
    \/ OneShotFire
    \/ Tick

SpecFair ==
    /\ Init
    /\ [][NextFair]_vars
    /\ WF_vars(Tick)
    /\ WF_vars(OneShotFire)

\* A LightBeam beside a Disconnect that also receives rejected commands, so
\* that one-shots fire on a relay that is off.
NextInterlock ==
    \/ PostRelay
    \/ PostInterlock
    \/ ChangeBeam
    \/ OnPins
    \/ OffPins
    \/ InvalidAction
    \/ OneShotFire
    \/ Tick

SpecInterlock == Init /\ [][NextInterlock]_vars

\* Requests the main context serves when it is in no timer call.
IdlePostRelay == timer_call = NoTimerCall /\ PostRelay
IdlePostInterlock == timer_call = NoTimerCall /\ PostInterlock
IdleChangeBeam == timer_call = NoTimerCall /\ ChangeBeam
IdleOnPins == timer_call = NoTimerCall /\ OnPins
IdleOffPins == timer_call = NoTimerCall /\ OffPins

\* A LightBeam beside a Disconnect, with the timer calls of the LightBeam's
\* commands taken statement by statement: the callbacks of the hardware
\* timers run between any two statements of the main context.
NextPreempt ==
    \/ IdlePostRelay
    \/ IdlePostInterlock
    \/ IdleChangeBeam
    \/ IdleOnPins
    \/ IdleOffPins
    \/ TimerCallBegins
    \/ TimerCallWrites
    \/ TimerCallRestarts
    \/ OneShotFire
    \/ Tick

SpecPreempt == Init /\ [][NextPreempt]_vars

\* The profile folder: a registry saved and removed, the favorite set and
\* cleared.
NextStore ==
    \/ PostPairs
    \/ Save
    \/ Remove
    \/ AddFavorite
    \/ DeleteFavorite

SpecStore == Init /\ [][NextStore]_vars

\* Calls of pixels_cycle on the LightBeams of PixelsInputs.
NextPixels == PixelsCycle

SpecPixels == InitPixels /\ [][NextPixels]_vars

\* Power-up: load_devices, then commands to the devices it built.
NextStartup ==
    \/ LoadDevices
    \/ Delete
    \/ OnPins
    \/ OffPins
    \/ OneShotFire

SpecStartup == InitStartup /\ [][NextStartup]_vars

\* One device of any class of CLS_MAP: created, commanded with legal and
\* illegal commands, timed out and deleted.
NextDevice ==
    \/ PostDevice
    \/ Delete
    \/ OnPins
    \/ OffPins
    \/ ResetPins
    \/ TogglePins
    \/ InvalidAction
    \/ OneShotFire

SpecDevice == Init /\ [][NextDevice]_vars

----------------------------------------------------------------------------
(* Properties *)

\* The pins owned by the devices of the registry.
OwnedPins == UNION {pin_list(objs, devices[i]) : i \in 1 .. Len(devices)}

\* The open Disconnect devices, and whether one has a one-shot pending.
IsDisconnect(id) == objs[id].kind = "DoubleDisconnect" /\ ~objs[id].closed
Relay(id) == gpio[objs[id].pin[1]]
OneShotPending(id) == objs[id].safe_stop = "armed" \/ objs[id].orphans > 0

\* C1: through every sequence of accepted and rejected create and delete
\* operations, the pin sets of distinct registry devices are pairwise
\* disjoint and the pin pool is the universe minus the pins they own.
C1_PinExclusivity ==
    /\ \A i, j \in 1 .. Len(devices) :
           i # j => pin_list(objs, devices[i]) \cap pin_list(objs, devices[j]) = {}
    /\ pin_pool = GPIO_PINS \ OwnedPins

\* A second device has just been created beside the first.
C1_Witness ==
    /\ Len(devices) = 2
    /\ last.op = "post" /\ last.err = "none"
    /\ pin_pool # GPIO_PINS

\* C2: whenever the relay of a Disconnect is energized, a one-shot whose
\* callback is that device's safe_close_relay is pending.
C2_EnergizedHasOneShot ==
    \A id \in ObjIds :
        (IsDisconnect(id) /\ Relay(id) = 1) => OneShotPending(id)

\* A Disconnect is energized.
C2_Witness ==
    \E id \in ObjIds :
        IsDisconnect(id) /\ Relay(id) = 1 /\ objs[id].state = "on"

\* C3: when the one-shot created by action(on_state) fires, no off, None or
\* close having cancelled it, the relay is de-energized and the latched state
\* is off_state.
C3_OneShotDeenergizes ==
    last.op = "oneshot" =>
        /\ Relay(last.id) = 0
        /\ objs[last.id].state = off_state(objs[last.id].kind)

\* The one-shot of a Disconnect that was on has fired.
C3_Witness ==
    /\ last.op = "oneshot" /\ last.pre = "on"
    /\ objs[last.id].kind = "DoubleDisconnect"
    /\ last.hw

\* C4: action(off_state) on an energized Disconnect leaves no one-shot
\* pending, and a Disconnect with no one-shot pending keeps its relay and its
\* latched state through every step that is no operation applied to it.
C4_OffCancelsOneShot ==
    [][\A id \in ObjIds :
          IsDisconnect(id) =>
            /\ (last'.op = "off" /\ last'.id = id /\ Relay(id) = 1) =>
                   /\ ~(objs'[id].safe_stop = "armed" \/ objs'[id].orphans > 0)
                   /\ gpio'[objs[id].pin[1]] = 0
                   /\ objs'[id].state = "off"
            /\ (~OneShotPending(id) /\ ~(last'.id = id /\ last'.op # "oneshot")) =>
                   /\ objs'[id].state = objs[id].state
                   /\ gpio'[objs[id].pin[1]] = Relay(id)]_vars

\* action(off_state) has been applied to a Disconnect that was on.
C4_Witness ==
    /\ last.op = "off" /\ last.pre = "on" /\ last.err = "none"
    /\ objs[last.id].kind = "DoubleDisconnect"
    /\ objs[last.id].safe_stop = "None"

\* C5: after every completed operation on the registry, the close-all of
\* shutdown included, a pin is in the pin pool if and only if no device of
\* the registry owns it.
C5_PoolIffUnowned ==
    \A p \in GPIO_PINS : (p \in pin_pool) <=> (p \notin OwnedPins)

\* The close-all has completed on a registry that holds a device.
C5_Witness ==
    /\ last.op = "shutdown" /\ last.err = "none"
    /\ Len(devices) > 0

\* C6: a rejected create request leaves the registry, the pin pool and the
\* output lines as they were and drives no line; with a device on pins (2,3)
\* a create on (3,4) is rejected and pin 4 stays in the pool.
C6_RejectedCreateFrame ==
    [][/\ (last'.op = "post" /\ last'.err # "none") =>
            /\ devices' = devices
            /\ pin_pool' = pin_pool
            /\ gpio' = gpio
            /\ objs' = objs
            /\ ~last'.hw
       /\ (/\ last'.op = "post" /\ last'.pins = <<3, 4>>
           /\ \E i \in 1 .. Len(devices) : objs[devices[i]].pin = <<2, 3>>) =>
            /\ last'.err # "none"
            /\ 4 \in pin_pool => 4 \in pin_pool']_vars

\* With a device on pins (2,3), a create of a relay switch on (3,4) has been
\* rejected and pin 4 is free.
C6_Witness ==
    /\ last.op = "post" /\ last.pins = <<3, 4>>
    /\ last.arg = "RelayTrainSwitch" /\ last.err = "ValueError"
    /\ \E i \in 1 .. Len(devices) : objs[devices[i]].pin = <<2, 3>>
    /\ 4 \in pin_pool

RECURSIVE SumTimes(_)
SumTimes(ids) ==
    IF ids = {}
    THEN 0
    ELSE LET id == CHOOSE i \in ids : TRUE
         IN  on_action_time(objs[id].lb) + SumTimes(ids \ {id})

Durations == SumTimes(timer_actions)

DeviceOps == {"on", "off", "reset", "toggle"}

\* C9: action(s) on a stateful device whose latched state is s drives no
\* output line, touches no timer and leaves the latched state s.
C9_SameStateIsNoOp ==
    [][(/\ last'.op \in DeviceOps /\ last'.id # 0
        /\ last'.arg = last'.pre
        /\ Stateful(objs[last'.id].kind)) =>
            /\ ~last'.hw /\ gpio' = gpio
            /\ objs' = objs
            /\ timer_armed' = timer_armed /\ timer_period' = timer_period
            /\ timer_actions' = timer_actions
            /\ last'.err = "none"]_vars

\* action(on_state) has been applied to a Disconnect that was on.
C9_Witness ==
    /\ last.op = "on" /\ last.id # 0
    /\ last.arg = "on" /\ last.pre = "on"
    /\ objs[last.id].kind = "DoubleDisconnect"
    /\ objs[last.id].safe_stop = "armed"

\* C10: when action(cmd) on a stateful device ends with an exception, the
\* latched state is the one before the call.
C10_FailedActionKeepsState ==
    (/\ last.op \in DeviceOps /\ last.id # 0
     /\ last.err # "none"
     /\ Stateful(objs[last.id].kind)) =>
        objs[last.id].state = last.pre

\* C11: for every device variant, EmptySwitch included, action(c) with c
\* neither on_state nor off_state (nor None) fails with the invalid-command
\* error.
C11_InvalidCommandRaises ==
    (last.op = "invalid" /\ last.id # 0) => last.err = "ValueError"

\* action("bogus") has been applied to a registered device.
C11_Witness ==
    /\ last.op = "invalid" /\ last.id # 0
    /\ last.arg = "bogus"

\* C12: for every device variant and every state the device reaches through
\* on, off and None actions, a LightBeam that was never switched on or is
\* already off included, action(None) completes without raising.
C12_ResetNeverRaises ==
    (last.op = "reset" /\ last.id # 0) => last.err = "none"

\* action(None) has been applied to a LightBeam that was off.
C12_Witness ==
    /\ last.op = "reset" /\ last.id # 0
    /\ objs[last.id].kind = "DoubleLightBeam"
    /\ last.pre = "off"

\* The stateless devices of the heap.
IsStateless(id) == objs[id].kind # "Free" /\ ~Stateful(objs[id].kind)

Describe(o, devs) == [i \in 1 .. Len(devs) |-> to_json(o, devs[i])]

\* C14: when the profile is the save of the present registry, load(name)
\* succeeds and yields a registry with the same sequence of pin sets, the
\* same kind at each pin set and the same latched state for each device.
C14_SaveLoadRoundTrip ==
    [][(last'.op = "load" /\ profile = save_json(objs, devices)) =>
          /\ last'.err = "none"
          /\ Describe(objs', devices') = Describe(objs, devices)]_vars

\* A saved registry of two devices has been loaded.
C14_Witness ==
    /\ last.op = "load" /\ last.err = "none"
    /\ Len(devices) = 2
    /\ profile = save_json(objs, devices)

\* C15: when load_json enters construct_from_cfg, every device of the
\* previous registry is closed, its lines are de-energized, it has no safety
\* one-shot pending and its pins are in the pool.
C15_ClosedBeforeConstruct ==
    load_mid.reached =>
        \A i \in 1 .. Len(load_mid.devices) :
            LET o == load_mid.objs[load_mid.devices[i]]
            IN  /\ o.kind # "EmptySwitch" => o.closed
                /\ \A p \in Range(o.pin) : load_mid.gpio[p] = 0
                /\ o.safe_stop # "armed" /\ o.orphans = 0
                /\ Range(o.pin) \subseteq load_mid.pin_pool

\* A registry whose Disconnect was energized has been replaced by a load.
C15_Witness ==
    /\ load_mid.reached
    /\ last.op = "load" /\ last.err = "none"
    /\ Len(devices) > 0
    /\ \E i \in 1 .. Len(load_mid.devices) :
           LET o == load_mid.objs[load_mid.devices[i]]
           IN  o.kind = "DoubleDisconnect" /\ o.state = "on"

\* The registry is the default layout: a new RelayTrainSwitch on each pin pair
\* of load_default_devices, in that order.
IsDefaultLayout ==
    /\ Len(devices) = Len(DefaultLayout)
    /\ \A i \in 1 .. Len(devices) :
           /\ objs[devices[i]].pin = DefaultLayout[i]
           /\ objs[devices[i]].kind = DEFAULT_DEVICE
           /\ ~objs[devices[i]].closed

\* C16: load_devices on an empty registry and a full pool returns without
\* raising, and when the favorite profile was not loaded the registry is the
\* default layout and the pool is the pins the layout leaves.
C16_StartupFallsBackToDefault ==
    last.op = "load_devices" =>
        /\ last.err = "none"
        /\ last.arg = "default" =>
               /\ IsDefaultLayout
               /\ pin_pool = GPIO_PINS \ UNION {Range(DefaultLayout[i]) :
                                                  i \in 1 .. Len(DefaultLayout)}

\* load_devices has fallen back to the default layout after load_json raised.
C16_Witness ==
    /\ last.op = "load_devices" /\ last.arg = "default"
    /\ profile.readable

\* The class a device type of a change request names.
KindOf(arg) == IF arg = "LightBeam" THEN "DoubleLightBeam" ELSE arg

\* The position of object id in the registry, 0 when it is not registered.
PositionOf(id) ==
    IF id \in Range(devices)
    THEN CHOOSE i \in 1 .. Len(devices) : devices[i] = id
    ELSE 0

\* C17: a successful change(pins, new_kind) leaves the key order, the pin
\* pool and every other device unchanged; the old device is closed, with no
\* one-shot pending, and the entry at pins is a new device of new_kind, state
\* None, at the same position.
C17_ChangeInPlace ==
    [][(last'.op = "change" /\ last'.err = "none") =>
          LET old == last'.id
              i == PositionOf(old)
          IN  /\ i # 0
              /\ Len(devices') = Len(devices)
              /\ pin_pool' = pin_pool
              /\ \A j \in 1 .. Len(devices) :
                     /\ objs'[devices'[j]].pin = objs[devices[j]].pin
                     /\ j # i =>
                            /\ devices'[j] = devices[j]
                            /\ objs'[devices[j]] = objs[devices[j]]
                            /\ \A p \in pin_list(objs, devices[j]) :
                                   gpio'[p] = gpio[p]
              /\ devices'[i] # old
              /\ objs'[devices'[i]].kind = KindOf(last'.arg)
              /\ objs'[devices'[i]].state = None
              /\ ~objs'[devices'[i]].closed
              /\ objs'[old].kind # "Free" =>
                     /\ objs'[old].closed
                     /\ objs'[old].safe_stop # "armed"]_vars

\* The first of two devices, an energized Disconnect, has been changed to
\* another type.
C17_Witness ==
    /\ last.op = "change" /\ last.err = "none"
    /\ last.pre = "on"
    /\ Len(devices) = 2
    /\ objs[devices[1]].pin = <<0, 1>>
    /\ objs[devices[1]].state = None
    /\ objs[devices[1]].kind = KindOf(last.arg)

\* C18: a change(pins, new_kind) rejected because new_kind is unknown, no
\* device is registered at pins or the pin counts differ leaves the device
\* at pins open with its state and lines, and the registry, the pool and
\* every object unchanged.
C18_RejectedChangeFrame ==
    [][(last'.op = "change" /\ last'.err = "ValueError") =>
          /\ devices' = devices
          /\ pin_pool' = pin_pool
          /\ objs' = objs
          /\ gpio' = gpio
          /\ timer_actions' = timer_actions
          /\ timer_armed' = timer_armed]_vars

\* A change of an energized device to a type that is no key of CLS_MAP has
\* been rejected.
C18_Witness ==
    /\ last.op = "change" /\ last.err = "ValueError"
    /\ last.id # 0 /\ last.arg = "Disconnect"
    /\ last.pre = "on"
    /\ ~objs[last.id].closed
    /\ objs[last.id].safe_stop = "armed"

\* C19: a successful create(pins, kind) places the new device last in the
\* registry, leaves the order and the state of the devices before it
\* unchanged, gives the new device the state None and takes exactly the
\* requested pins from the pool.
C19_CreateAppends ==
    [][(last'.op = "post" /\ last'.err = "none") =>
          /\ devices' = Append(devices, last'.id)
          /\ \A i \in 1 .. Len(devices) :
                 objs'[devices[i]] = objs[devices[i]]
          /\ objs'[last'.id].state = None
          /\ objs'[last'.id].pin = last'.pins
          /\ Range(last'.pins) \subseteq pin_pool
          /\ pin_pool' = pin_pool \ Range(last'.pins)]_vars

\* A device has been created beside an existing one.
C19_Witness ==
    /\ last.op = "post" /\ last.err = "none"
    /\ Len(devices) = 2
    /\ devices[2] = last.id

\* C20: in a registry of k devices, toggle_index(N) and reset_index(N) with
\* 1 <= N <= k address the N-th device of the registry order, latch the
\* command on it when they succeed, and change no other device, its lines
\* or the registry.
C20_IndexAddressesNth ==
    [][(/\ last'.op \in {"toggle_index", "reset_index"}
        /\ last'.pins[1] \in 1 .. Len(devices)) =>
          LET N == last'.pins[1]
          IN  /\ last'.id = devices[N]
              /\ devices' = devices
              /\ pin_pool' = pin_pool
              /\ last'.err = "none" => objs'[devices[N]].state = last'.arg
              /\ \A j \in 1 .. Len(devices) :
                     j # N =>
                        /\ objs'[devices[j]] = objs[devices[j]]
                        /\ \A p \in pin_list(objs, devices[j]) :
                               gpio'[p] = gpio[p]]_vars

\* toggle_index(2) has switched on the second of two devices.
C20_Witness ==
    /\ last.op = "toggle_index" /\ last.pins = <<2>>
    /\ last.err = "none" /\ last.hw
    /\ Len(devices) = 2
    /\ objs[devices[2]].state = on_state(objs[devices[2]].kind)
    /\ objs[devices[1]].state = None

Calls(ran, id) == Cardinality({i \in 1 .. Len(ran) : ran[i] = id})

\* C22: a periodic tick calls the callback of every registered key exactly
\* once and no callback of an unregistered key; enqueue with a key that is
\* registered already replaces its entry and adds none.
C22_TickCallsEachOnce ==
    [][/\ last'.op = "tick" =>
              \A id \in ObjIds :
                  Calls(last'.ran, id) = IF id \in timer_actions THEN 1 ELSE 0
       /\ (/\ last'.op = "on" /\ last'.err = "none" /\ last'.id # 0
           /\ last'.id \in timer_actions
           /\ last'.pre # "on") =>
              /\ timer_actions' = timer_actions
              /\ timer_period' = SECONDS_PER_ACTION * SECONDS_TO_MILLISECONDS
                                  * Cardinality(timer_actions)]_vars

\* A tick has called the callbacks of two registered LightBeams.
C22_Witness ==
    /\ last.op = "tick"
    /\ Cardinality(timer_actions) = 2
    /\ Len(last.ran) = 2

\* The object is a LightBeam that has not been closed.
IsOpenLightBeam(id) ==
    id # 0 /\ objs[id].kind = "DoubleLightBeam" /\ ~objs[id].closed

C24_CallbackFrame ==
    [][last'.op \in {"tick", "oneshot"} =>
          /\ pin_pool' = pin_pool
          /\ devices' = devices
          /\ \A i \in 1 .. Len(devices) :
                 (devices[i] # last'.id /\ devices[i] \notin Range(last'.ran))
                     => objs'[devices[i]].state = objs[devices[i]].state]_vars

\* A safety one-shot has de-energized its Disconnect beside a second device
\* that holds a latched state.
C24_Witness ==
    /\ last.op = "oneshot" /\ last.err = "none" /\ last.hw
    /\ Len(devices) = 2
    /\ \E i \in 1 .. 2 :
           devices[i] # last.id /\ objs[devices[i]].state # None

\* C25: for every pixel count n, beam_length <= n, delay >= 0 and both
\* directions, pixels_cycle in measurement mode writes no pixel and returns
\* the sum of the sleeps the same call makes in real mode.
C25_MeasuredIsSlept ==
    (pixels_call.done /\ pixels_call.measure_time) =>
        /\ pixels_call.out.writes = 0
        /\ pixels_call.out.slept = 0
        /\ pixels_call.out.lit = PixelsStart(pixels_call.lb.n).lit
        /\ pixels_call.out.total_time =
               pixels_cycle(pixels_call.lb, pixels_call.reverse, FALSE).slept

\* A reversed cycle over MaxPixels pixels with a beam of two and a delay has
\* been measured, and pixels were left in the queue when the loop ended.
C25_Witness ==
    /\ pixels_call.done /\ pixels_call.measure_time /\ pixels_call.reverse
    /\ pixels_call.lb.n = MaxPixels
    /\ pixels_call.lb.beam_length = 2
    /\ pixels_call.lb.delay > 0
    /\ pixels_call.out.total_time > 2 * MaxPixels * pixels_call.lb.delay

\* C26: closing a Disconnect, whatever its state, leaves its relay
\* de-energized and no safety one-shot of it pending, so that no safety
\* callback runs on a closed device.
C26_CloseCancelsOneShots ==
    [][/\ \A id \in ObjIds :
              (/\ IsDisconnect(id) /\ ~objs[id].closed
               /\ last'.op = "delete" /\ last'.err = "none"
               /\ last'.id = id) =>
                  /\ gpio'[objs[id].pin[1]] = 0
                  /\ objs'[id].safe_stop # "armed"
                  /\ objs'[id].orphans = 0
       /\ last'.op = "oneshot" => ~objs[last'.id].closed]_vars

\* A Disconnect that was energized with its one-shot pending has been deleted.
C26_Witness ==
    /\ last.op = "delete" /\ last.err = "none" /\ last.pre = "on"
    /\ gpio[0] = 0
    /\ devices = <<>>

C28_OneShotRestartsTimer ==
    (last.op = "oneshot" /\ last.err = "none") =>
        (timer_armed <=> timer_actions # {})

\* A one-shot that found its relay off has restarted the timer for a
\* registered LightBeam.
C28_Witness ==
    /\ last.op = "oneshot" /\ last.err = "none" /\ ~last.hw
    /\ timer_armed
    /\ timer_actions # {}

C31_OpenIffRegistered ==
    /\ \A i \in 1 .. Len(devices) : ~objs[devices[i]].closed
    /\ last.left_open = {}

\* A load of a registry of two devices has failed after construct_from_cfg
\* began.
C31_Witness ==
    /\ last.op = "load" /\ last.err # "none"
    /\ load_mid.reached
    /\ Len(devices) = 2

C33_OneOneShotPerDisconnect ==
    \A id \in ObjIds :
        objs[id].kind = "DoubleDisconnect" => objs[id].orphans = 0

\* A Disconnect that was switched on before has been switched on again by a
\* toggle, and its one-shot is pending.
C33_Witness ==
    /\ last.op = "toggle" /\ last.arg = "on" /\ last.pre = "off"
    /\ last.err = "none" /\ last.id # 0
    /\ IsDisconnect(last.id)
    /\ objs[last.id].safe_stop = "armed"

\* C34: delete(pins) of a registered device closes it, removes its entry and
\* keeps the order of the others, and returns exactly its pins to the pool, so
\* that a create on the same pins that follows succeeds; delete(pins) with no
\* device registered at pins changes neither the registry nor the pool.
C34_DeleteReturnsPins ==
    [][/\ (last'.op = "delete" /\ last'.id # 0) =>
              /\ last'.err = "none"
              /\ last'.id \notin last'.left_open
              /\ \A p \in pin_list(objs, last'.id) : gpio'[p] = 0
              /\ devices' = SelectSeq(devices, LAMBDA d : d # last'.id)
              /\ Len(devices') = Len(devices) - 1
              /\ pin_list(objs, last'.id) \cap pin_pool = {}
              /\ pin_pool' = pin_pool \cup pin_list(objs, last'.id)
       /\ (last'.op = "delete" /\ last'.id = 0) =>
              /\ last'.err = "none"
              /\ devices' = devices /\ pin_pool' = pin_pool
              /\ objs' = objs /\ gpio' = gpio
       /\ (/\ last.op = "delete" /\ last.id # 0
           /\ last'.op = "post" /\ last'.pins = last.pins
           /\ \/ Len(last.pins) = 2
                 /\ last'.arg \in {"RelayTrainSwitch", "DoubleDisconnect"}
              \/ Len(last.pins) = 1 /\ last'.arg = "Disconnect") =>
              /\ last'.err = "none"
              /\ Len(devices') = Len(devices) + 1
              /\ objs'[devices'[Len(devices')]].pin = last.pins
              /\ pin_pool' = pin_pool \ Range(last.pins)]_vars

\* A device that the registry held after the close of all devices has been
\* deleted, and the delete has raised.
C34_Witness ==
    /\ last.op = "delete" /\ last.id # 0 /\ last.pins = <<0, 1>>
    /\ last.err = "AttributeError"
    /\ devices = <<>>
    /\ pin_pool = GPIO_PINS

\* C35: toggle on a stateful device sends off_state when the latched state is
\* on_state and on_state when it is off_state or None, and the device latches
\* what was sent; two consecutive toggles of a device with distinct on and
\* off labels, starting from on_state or off_state, end in the latched state
\* they started from.
C35_ToggleFlips ==
    [][/\ (/\ last'.op = "toggle" /\ last'.id # 0
           /\ Stateful(objs[last'.id].kind)) =>
              /\ last'.pre = on_state(objs[last'.id].kind) =>
                     last'.arg = off_state(objs[last'.id].kind)
              /\ (/\ last'.pre # on_state(objs[last'.id].kind)
                  /\ last'.pre \in {off_state(objs[last'.id].kind), None}) =>
                     last'.arg = on_state(objs[last'.id].kind)
              /\ objs'[last'.id].state = last'.arg
       /\ (/\ last.op = "toggle" /\ last'.op = "toggle"
           /\ last.id # 0 /\ last'.id = last.id
           /\ Stateful(objs[last.id].kind)
           /\ on_state(objs[last.id].kind) # off_state(objs[last.id].kind)
           /\ last.pre \in {on_state(objs[last.id].kind),
                            off_state(objs[last.id].kind)}) =>
              objs'[last.id].state = last.pre]_vars

\* A Disconnect whose latched state was off has been toggled: it is on again
\* with a one-shot pending.
C35_Witness ==
    /\ last.op = "toggle" /\ last.id # 0 /\ last.err = "none"
    /\ IsDisconnect(last.id)
    /\ last.pre = "off" /\ last.arg = "on"
    /\ objs[last.id].state = "on"
    /\ objs[last.id].safe_stop = "armed"

\* C36: an index-addressed toggle or reset whose index is outside 1 .. k, for
\* a registry of k devices, 0 and negative indices included, is rejected with
\* an error and changes no device's latched state and no output line.
C36_IndexOutOfRangeRejected ==
    [][(/\ last'.op \in {"toggle_index", "reset_index"}
        /\ last'.pins[1] \notin 1 .. Len(devices)) =>
            /\ last'.err # "none"
            /\ ~last'.hw /\ gpio' = gpio
            /\ objs' = objs]_vars

\* toggle_index(0) has been served on a registry of two devices without an
\* error: the last device has been toggled.
C36_Witness ==
    /\ last.op = "toggle_index" /\ last.pins = <<0>>
    /\ last.err = "none"
    /\ Len(devices) = 2
    /\ last.id = devices[2]
    /\ objs[last.id].state = on_state(objs[last.id].kind)

\* C37: a RelayTrainSwitch never has both of its lines on, at no moment of any
\* operation, and after every completed action (on_state, off_state or None)
\* both of its lines are off.
C37_RelayPulsesOneLine ==
    /\ "RelayTrainSwitch" \notin last.both
    /\ \A id \in ObjIds :
           (objs[id].kind = "RelayTrainSwitch" /\ ~objs[id].closed) =>
               /\ gpio[objs[id].pin[1]] = 0
               /\ gpio[objs[id].pin[2]] = 0

\* A RelayTrainSwitch that was set to turn has been set to straight: it has
\* pulsed its first line.
C37_Witness ==
    /\ last.op = "on" /\ last.err = "none" /\ last.hw
    /\ last.pre = "turn" /\ last.arg = "straight"
    /\ last.id # 0
    /\ objs[last.id].kind = "RelayTrainSwitch"
    /\ objs[last.id].state = "straight"

\* C38: a SpurTrainSwitch never has both of its relays on, the moments
\* between the steps of an action included; after action(on_state) or
\* action(off_state) exactly the relay that command selects is on, and after
\* action(None) neither is.
C38_SpurRoutesOneLeg ==
    [][/\ "SpurTrainSwitch" \notin last'.both
       /\ (/\ last'.op \in DeviceOps /\ last'.id # 0 /\ last'.err = "none"
           /\ objs[last'.id].kind = "SpurTrainSwitch") =>
              LET yg == gpio'[objs[last'.id].pin[1]]
                  br == gpio'[objs[last'.id].pin[2]]
              IN  CASE last'.arg = "straight" -> yg = 1 /\ br = 0
                    [] last'.arg = "turn" -> yg = 0 /\ br = 1
                    [] OTHER -> yg = 0 /\ br = 0]_vars

\* A SpurTrainSwitch that routed power to one leg has been switched to the
\* other.
C38_Witness ==
    /\ last.op = "off" /\ last.err = "none" /\ last.hw
    /\ last.pre = "straight" /\ last.arg = "turn"
    /\ last.id # 0
    /\ objs[last.id].kind = "SpurTrainSwitch"
    /\ gpio[objs[last.id].pin[1]] = 0
    /\ gpio[objs[last.id].pin[2]] = 1

\* C39: remove(name) of a profile that exists completes without error whether
\* or not a favorite is set; afterwards the profile does not exist, and the
\* favorite is cleared when it named the removed profile and kept otherwise.
C39_RemoveCompletes ==
    [][(/\ last'.op = "remove" /\ last'.arg = ProfileName
        /\ profile.exists) =>
            /\ last'.err = "none"
            /\ ~profile'.exists
            /\ favorite_file' = IF favorite_file = ProfileName
                                THEN NoFavorite
                                ELSE favorite_file]_vars

\* The saved profile has been removed with no favorite set, and the removal
\* has raised.
C39_Witness ==
    /\ last.op = "remove" /\ last.arg = ProfileName /\ last.pre = "exists"
    /\ last.err = "OSError"
    /\ ~profile.exists
    /\ favorite_file = NoFavorite

\* C40: in a pixels_cycle that drives the strip (measure_time false) with
\* 1 <= beam_length <= n, after every statement at most beam_length pixels
\* are lit and the queue holds at most beam_length indices, the lit pixels
\* are one run of neighbours, and when the call returns every pixel is dark.
C40_BeamBounded ==
    (/\ pixels_call.done /\ ~pixels_call.measure_time
     /\ 1 <= pixels_call.lb.beam_length
     /\ pixels_call.lb.beam_length <= pixels_call.lb.n) =>
        /\ pixels_call.out.max_lit <= pixels_call.lb.beam_length
        /\ pixels_call.out.max_queue <= pixels_call.lb.beam_length
        /\ ~pixels_call.out.gaps
        /\ \A i \in DOMAIN pixels_call.out.lit : ~pixels_call.out.lit[i]

\* A beam of two pixels has crossed a strip of MaxPixels pixels in reverse.
C40_Witness ==
    /\ pixels_call.done /\ ~pixels_call.measure_time /\ pixels_call.reverse
    /\ pixels_call.lb.n = MaxPixels
    /\ pixels_call.lb.beam_length = 2
    /\ pixels_call.out.max_lit = 2
    /\ pixels_call.out.max_queue = 2
    /\ pixels_call.out.writes = 2 * MaxPixels

====
